---- MODULE Spec2Model ----
(***************************************************************************)
(* A model of pdblp.BCon (src/pdblp.py): the session bring-up, the request *)
(* operations and the event pump _receive_events.  One sequential caller   *)
(* drives a BCon; the blpapi session is the environment: it queues events  *)
(* at any time and answers nextEvent / tryNextEvent from that queue.       *)
(*                                                                         *)
(* An event is [type, n]: its eventType and the number of messages it      *)
(* holds.  Nothing reads an event before it is polled, so the queue holds  *)
(* the types of the waiting events and the number of messages of an event  *)
(* is drawn when it is polled.  The j-th message of the i-th event polled  *)
(* by an operation is named <<i, j>>.                                      *)
(*                                                                         *)
(* The functions that work on data only (the row parsers _parse_ref,       *)
(* _parse_bulkref and the loop of _bdh_list, _create_req's fills and       *)
(* _element_to_dict) are followed on their own, each under a specification *)
(* that draws its inputs and leaves the connection alone.                  *)
(***************************************************************************)
EXTENDS Integers, Sequences, FiniteSets, TLC

\* ------------------------------------------------------------------ bounds
\* Longest list of dates handed to ref_hist / bulkref_hist.
MaxDates == 2
\* Most messages in one event.
MaxMsgs == 2
\* Most messages in one event while the whole lifecycle is followed (Spec).
MaxLifecycleMsgs == 1
\* Most events waiting in the session's queue.
MaxQueue == 1
\* Most events one query polls before the model stops following it.
MaxPolls == MaxDates + 1
\* Most elements of the array a bulk field decodes to.
MaxElems == 2
\* Most keys of one element of such an array.
MaxKeys == 2
\* Most security-data records a row parser is followed over.
MaxRecords == 2
\* Longest list of tickers, fields, settings or overrides of a request.
MaxArgs == 2
\* Deepest nesting of the nodes handed to _element_to_dict.
MaxDepth == 2
\* Most children of a record node and most items of an array node.
MaxWidth == 2

\* --------------------------------------------------------------- constants
RESPONSE_TYPES == {"RESPONSE", "PARTIAL_RESPONSE"}

EVENT_DICT == {"SESSION_STATUS", "RESPONSE", "PARTIAL_RESPONSE",
               "SERVICE_STATUS", "TIMEOUT", "REQUEST"}

\* Event types of blpapi.Event that the lookup table leaves out.
UnknownTypes == {"ADMIN"}

\* What the session can queue; a TIMEOUT event is made by nextEvent itself.
QueuedTypes == (EVENT_DICT \ {"TIMEOUT"}) \cup UnknownTypes

TimeoutEvent == "TIMEOUT"

QueryOps == {"bdh", "ref", "bulkref", "ref_hist", "bulkref_hist",
             "bdib", "bsrch", "beqs"}

HistOps == {"ref_hist", "bulkref_hist"}

\* Operations whose consumer validates each message and may raise on it.
ValidatingOps == {"bdh", "ref", "bulkref", "ref_hist", "bulkref_hist"}

\* Operations that flush the event queue before building their request.
\* The date_field argument of ref_hist / bulkref_hist (its default).
DateField == "REFERENCE_DATE"

DrainingOps == {"bdh", "ref", "bulkref", "ref_hist", "bulkref_hist",
                "bdib", "beqs"}

\* The row parsers: _parse_ref, _parse_bulkref and the loop of _bdh_list.
RefParsers == {"ref", "ref_hist"}

BulkParsers == {"bulkref", "bulkref_hist"}

\* What the parsed requests ask for and the tokens a date sweep sends.
Tickers == {"IBM US Equity", "XXX Equity"}

Fields == {"PX_LAST", "INDX_MWEIGHT"}

Dates == {"20160625", "20160626"}

\* The subcategories of the errorInfo of a field exception.
Subcategories == {"INVALID_FIELD", "NOT_APPLICABLE_TO_REF_DATA"}

\* ------------------------------------------------------------------ errors
NoErr == [cls |-> "none", msg |-> ""]

FlushError == [cls |-> "ValueError",
               msg |-> "Flush event queue of blpapi.Session prior to instantiation"]

KeyErr == [cls |-> "KeyError", msg |-> "event type"]

ExpectedSessionStatus == [cls |-> "RuntimeError",
                          msg |-> "Expected a SESSION_STATUS event"]

CouldNotStart == [cls |-> "ConnectionError",
                  msg |-> "Could not start blpapi.Session"]

ExpectedServiceStatus == [cls |-> "RuntimeError",
                          msg |-> "Expected a SERVICE_STATUS event"]

CouldNotOpen(name) == [cls |-> "ConnectionError",
                       msg |-> "Could not open a service " \o name]

NoService == [cls |-> "AttributeError", msg |-> "no service attribute"]

EmptyDates == [cls |-> "ValueError", msg |-> "dates must by non empty"]

TimeoutError == [cls |-> "RuntimeError",
                 msg |-> "Timeout, increase BCon.timeout attribute"]

UnexpectedEvent == [cls |-> "RuntimeError", msg |-> "Unexpected Event Type"]

ParseError == [cls |-> "ValueError", msg |-> "parse"]

BeqsParseError == [cls |-> "blpapi.Exception", msg |-> "beqs parse"]

UnknownSecurity(ticker) == [cls |-> "ValueError",
                            msg |-> "Unknow security " \o ticker]

InvalidField(fieldId) == [cls |-> "ValueError",
                          msg |-> fieldId \o ": INVALID_FIELD"]

BulkInScalar(fld) ==
    [cls |-> "ValueError",
     msg |-> "Field " \o fld \o
             " returns bulk reference data which is not supported"]

NotBulk(fld) ==
    [cls |-> "ValueError",
     msg |-> "Cannot parse field " \o fld \o
             " which is not bulk reference data"]

\* _bdh_list's ValueError(data): its argument is the list of rows, held in
\* the variable carried.
BdhError == [cls |-> "ValueError", msg |-> "data"]

\* session.sendRequest with a correlation id that a request the session is
\* still answering bears.
DuplicateCorrelationId == [cls |-> "DuplicateCorrelationIdException",
                           msg |-> "correlation id in use"]

\* elem.datatype() on a value that is not an Element.
NoDatatype == [cls |-> "AttributeError",
               msg |-> "object has no attribute 'datatype'"]

\* ------------------------------------------------------------------- state
VARIABLES
    bcon,            \* "none" | "built" | "failed": the constructor's outcome
    sessState,       \* the blpapi session: "new" | "started" | "stopped"
    refDataService,  \* self.refDataService is set
    exrService,      \* self.exrService is set
    lifecycle,       \* Disconnected | Starting | ServicesOpening | Ready | Stopped
    queue,           \* the types of the events in the session's queue (before
                     \* the constructor runs: of the session the caller may
                     \* hand to it)
    pc,              \* where the caller is
    op,              \* the operation in progress, or the last one
    err,             \* the error the last operation raised, or NoErr
    statuses,        \* the types of the events the constructor or start() polled
    polled,          \* the events the query has polled, in order
    opens,           \* the results of the openService calls of this start()
    yielded,         \* the messages _receive_events has yielded, in order
    warned,          \* the messages _receive_events logged at warning level
    sent_events,     \* _receive_events' counter
    expected,        \* the sent_events argument _receive_events was started with
    yidx,            \* index of the next message of the current event
    nDates,          \* len(dates) of a ref_hist / bulkref_hist call
    nSent,           \* sendRequest calls made by the operation
    staleLeft,       \* queued events that were queued before the query was called
    sendLife,        \* the lifecycle at the operation's latest sendRequest
    sendStale,       \* staleLeft at the operation's latest sendRequest
    everSent,        \* sendRequest has been called on the session through BCon
    inflight,        \* requests of the query at hand the session has not yet
                     \* queued the RESPONSE event of
    owed,            \* such requests of the queries before it that failed
    origins,         \* for each queued event, the request it answers: one of
                     \* the query at hand ("cur"), one of a query before it
                     \* that failed ("old"), or none of these
    taken,           \* the same for each event the query has polled
    tickers,         \* the tickers argument of a request
    flds,            \* the flds argument of a request / of a row parser
    ovrds,           \* the ovrds argument of a request
    setvals,         \* the setvals argument of a request
    request,         \* the blpapi request _create_req is filling
    msg,             \* the decoded message the row parser is working on: its
                     \* correlationIds and the security-data record at hand
    seen,            \* the security-data records the parser has been through
    data,            \* the row parser's list "data"
    added,           \* the rows the parser's latest step appended to data
    carried,         \* the rows the raised exception carries as its argument
    dates,           \* the dates argument of ref_hist / bulkref_hist
    sends,           \* the sendRequest calls _send_hist has made, in order:
                     \* the request as it was sent, its correlation id and
                     \* whether the session is still answering it
    elem,            \* the node handed to _element_to_dict
    doc              \* what _element_to_dict returned

ctorVars == <<bcon>>
sessVars == <<sessState, refDataService, exrService, lifecycle>>
recvVars == <<polled, yielded, warned, sent_events, expected, yidx>>
sendVars == <<nDates, nSent, sendLife, sendStale, everSent>>
reqVars == <<tickers, ovrds, setvals, request>>
parseVars == <<msg, seen, data, added, carried>>
decodeVars == <<elem, doc>>
sweepVars == <<dates, sends>>
dataVars == <<reqVars, parseVars, decodeVars, sweepVars, flds>>
wireVars == <<inflight, owed, origins, taken>>
connVars == <<ctorVars, sessVars, recvVars, sendVars, wireVars, queue, opens,
              statuses, staleLeft>>
vars == <<connVars, dataVars, pc, op, err>>

\* The events of one type the session can hand out, of at most cap messages;
\* the TIMEOUT event nextEvent makes is empty.
Events(type, cap) ==
    IF type = "TIMEOUT" THEN {[type |-> type, n |-> 0]}
    ELSE {[type |-> type, n |-> k] : k \in 0..cap}

\* --------------------------------------------------------- session queue
\* session.nextEvent(timeout): the type of the head of the queue, or of a
\* TIMEOUT event.
NextEventTimeout(q) == IF q = <<>> THEN TimeoutEvent ELSE Head(q)

\* The queue after nextEvent(timeout) / one tryNextEvent.
Rest(q) == IF q = <<>> THEN q ELSE Tail(q)

\* The messages of the i-th polled event ev, in the event's order.
MsgsOf(i, ev) == [j \in 1..ev.n |-> <<i, j>>]

Dec(k) == IF k > 0 THEN k - 1 ELSE 0

Min2(a, b) == IF a <= b THEN a ELSE b

\* The request the event nextEvent(timeout) is about to hand out answers.
OriginOfNext == IF origins = <<>> THEN "none" ELSE Head(origins)

\* No request is being filled, no message parsed and no node decoded.
NoData ==
    /\ tickers = <<>>
    /\ flds = <<>>
    /\ ovrds = <<>>
    /\ setvals = <<>>
    /\ request = <<>>
    /\ msg = <<>>
    /\ seen = 0
    /\ data = <<>>
    /\ added = <<>>
    /\ carried = <<>>
    /\ dates = <<>>
    /\ sends = <<>>
    /\ elem = <<>>
    /\ doc = <<>>

Init ==
    /\ bcon = "none"
    /\ sessState = "new"
    /\ refDataService = FALSE
    /\ exrService = FALSE
    /\ lifecycle = "Disconnected"
    /\ queue = <<>>
    /\ pc = "idle"
    /\ op = "none"
    /\ err = NoErr
    /\ statuses = <<>>
    /\ polled = <<>>
    /\ opens = <<>>
    /\ yielded = <<>>
    /\ warned = <<>>
    /\ sent_events = 0
    /\ expected = 0
    /\ yidx = 0
    /\ nDates = 0
    /\ nSent = 0
    /\ staleLeft = 0
    /\ sendLife = "none"
    /\ sendStale = 0
    /\ everSent = FALSE
    /\ inflight = 0
    /\ owed = 0
    /\ origins = <<>>
    /\ taken = <<>>
    /\ NoData

\* The session queues one more event (a response, a status change, ...).
Deliver ==
    /\ Len(queue) < MaxQueue
    /\ \E type \in QueuedTypes : queue' = Append(queue, type)
    /\ origins' = Append(origins, "none")
    /\ UNCHANGED <<dataVars, inflight, owed, taken, ctorVars, sessVars, recvVars, sendVars, pc, op, err, opens,
                   statuses, staleLeft>>

\* The requests the session has yet to finish answering: those of the query
\* at hand and those of the queries before it that failed.
Outstanding ==
    {o \in {"cur", "old"} : IF o = "cur" THEN inflight > 0 ELSE owed > 0}

\* The session queues one more event of its answer to a request sent to it:
\* any number of PARTIAL_RESPONSE events, then the RESPONSE event that ends
\* the answer.
Answer ==
    /\ Len(queue) < MaxQueue
    /\ \E o \in Outstanding, type \in RESPONSE_TYPES :
        /\ queue' = Append(queue, type)
        /\ origins' = Append(origins, o)
        /\ inflight' = IF o = "cur" /\ type = "RESPONSE"
                       THEN inflight - 1 ELSE inflight
        /\ owed' = IF o = "old" /\ type = "RESPONSE" THEN owed - 1 ELSE owed
    /\ UNCHANGED <<dataVars, taken, ctorVars, sessVars, recvVars, sendVars, pc,
                   op, err, opens, statuses, staleLeft>>

\* ------------------------------------------------------------ constructor
\* Mutant: the constructor accepts a supplied session whatever it polls.
CtorAccepts_any(type) == TRUE

\* BCon.__init__ accepts a supplied session only on a TIMEOUT event.
CtorAccepts(type) == type = "TIMEOUT"

\* BCon(...): with session=None a fresh session is made, a session the caller
\* supplies is polled once with the timeout.
Construct ==
    /\ bcon = "none"
    /\ \E given \in BOOLEAN :
        IF given
        THEN LET type == NextEventTimeout(queue) IN
             /\ op' = "__init__(session)"
             /\ statuses' = Append(statuses, type)
             /\ queue' = Rest(queue)
             /\ origins' = Rest(origins)
             /\ IF CtorAccepts(type)
                THEN bcon' = "built" /\ err' = NoErr
                ELSE bcon' = "failed" /\ err' = FlushError
        ELSE /\ op' = "__init__()"
             /\ bcon' = "built"
             /\ err' = NoErr
             /\ queue' = <<>>
             /\ origins' = <<>>
             /\ statuses' = statuses
    /\ UNCHANGED <<dataVars, inflight, owed, taken, sessVars, recvVars, sendVars, pc, opens, staleLeft>>

\* ------------------------------------------------------------------ start
\* An operation of a constructed BCon begins: its records start empty.
Begin(name) ==
    /\ pc = "idle"
    /\ bcon = "built"
    /\ op' = name
    /\ err' = NoErr
    /\ statuses' = <<>>
    /\ polled' = <<>>
    /\ opens' = <<>>
    /\ yielded' = <<>>
    /\ warned' = <<>>
    /\ yidx' = 0
    /\ sent_events' = 0
    /\ expected' = 0
    /\ nSent' = 0
    /\ sendLife' = "none"
    /\ sendStale' = 0
    /\ taken' = <<>>

\* start() up to the return of self._session.start().
StartCall ==
    /\ Begin("start")
    /\ \E started \in BOOLEAN :
        /\ sessState' = IF started THEN "started" ELSE sessState
        /\ pc' = IF started THEN "start_ev1" ELSE "start_nok"
    /\ lifecycle' = "Starting"
    /\ UNCHANGED <<dataVars, inflight, owed, origins, ctorVars, refDataService, exrService, queue, nDates,
                   everSent, staleLeft>>

\* What one handshake event makes start() raise (NoErr: nothing).
HandshakeError(type) ==
    IF type \notin EVENT_DICT THEN KeyErr
    ELSE IF type # "SESSION_STATUS" THEN ExpectedSessionStatus
    ELSE NoErr

\* start(), session started: one of the two blocking nextEvent() calls.
StartHandshake ==
    /\ pc \in {"start_ev1", "start_ev2"}
    /\ queue # <<>>
    /\ LET type == Head(queue)
           e == HandshakeError(type) IN
        /\ statuses' = Append(statuses, type)
        /\ queue' = Tail(queue)
        /\ origins' = Tail(origins)
        /\ staleLeft' = Dec(staleLeft)
        /\ err' = e
        /\ IF e # NoErr
           THEN pc' = "idle" /\ lifecycle' = "Disconnected"
           ELSE IF pc = "start_ev1"
                THEN pc' = "start_ev2" /\ lifecycle' = "Starting"
                ELSE pc' = "svc_refdata" /\ lifecycle' = "ServicesOpening"
    /\ UNCHANGED <<dataVars, inflight, owed, taken, ctorVars, sessState, refDataService, exrService, op, opens,
                   recvVars, sendVars>>

\* What the event polled after a failed session.start() makes start() raise.
NotStartedError(type) ==
    IF type = "SESSION_STATUS" THEN CouldNotStart ELSE NoErr

\* start(), session.start() returned False: one nextEvent(self.timeout).
StartNotStarted ==
    /\ pc = "start_nok"
    /\ LET type == NextEventTimeout(queue)
           e == NotStartedError(type) IN
        /\ statuses' = Append(statuses, type)
        /\ queue' = Rest(queue)
        /\ origins' = Rest(origins)
        /\ staleLeft' = Dec(staleLeft)
        /\ err' = e
        /\ IF e # NoErr
           THEN pc' = "idle" /\ lifecycle' = "Disconnected"
           ELSE pc' = "svc_refdata" /\ lifecycle' = "ServicesOpening"
    /\ UNCHANGED <<dataVars, inflight, owed, taken, ctorVars, sessState, refDataService, exrService, op, opens,
                   recvVars, sendVars>>

\* Mutant: the result of openService is not looked at.
ServiceError_unchecked(name, type, opened) ==
    IF type \notin EVENT_DICT THEN KeyErr
    ELSE IF type # "SERVICE_STATUS" THEN ExpectedServiceStatus
    ELSE NoErr

\* What opening one service makes _init_services raise.
ServiceError(name, type, opened) ==
    IF type \notin EVENT_DICT THEN KeyErr
    ELSE IF type # "SERVICE_STATUS" THEN ExpectedServiceStatus
    ELSE IF ~opened THEN CouldNotOpen(name)
    ELSE NoErr

\* _init_services: openService(name), then one blocking nextEvent().
OpenService ==
    /\ pc \in {"svc_refdata", "svc_exrsvc"}
    /\ queue # <<>>
    /\ \E opened \in BOOLEAN :
        LET type == Head(queue)
            name == IF pc = "svc_refdata" THEN "//blp/refdata" ELSE "//blp/exrsvc"
            e == ServiceError(name, type, opened) IN
        /\ opens' = Append(opens, opened)
        /\ statuses' = Append(statuses, type)
        /\ queue' = Tail(queue)
        /\ origins' = Tail(origins)
        /\ staleLeft' = Dec(staleLeft)
        /\ err' = e
        /\ refDataService' = (refDataService \/ (pc = "svc_refdata" /\ e = NoErr))
        /\ exrService' = (exrService \/ (pc = "svc_exrsvc" /\ e = NoErr))
        /\ IF e # NoErr
           THEN pc' = "idle" /\ lifecycle' = "Disconnected"
           ELSE IF pc = "svc_refdata"
                THEN pc' = "svc_exrsvc" /\ lifecycle' = "ServicesOpening"
                ELSE pc' = "idle" /\ lifecycle' = "Ready"
    /\ UNCHANGED <<dataVars, inflight, owed, taken, ctorVars, sessState, op,
                   recvVars, sendVars>>

\* ------------------------------------------------------------------- stop
\* Mutant: stop() stops only a session that is started.
Stop_started ==
    /\ Begin("stop")
    /\ IF sessState = "started"
       THEN sessState' = "stopped" /\ lifecycle' = "Stopped"
       ELSE UNCHANGED <<sessState, lifecycle>>
    /\ pc' = "idle"
    /\ UNCHANGED <<dataVars, inflight, owed, origins, ctorVars, refDataService,
                   exrService, queue, nDates, everSent, staleLeft>>

\* stop(): self._session.stop().
Stop ==
    /\ Begin("stop")
    /\ sessState' = "stopped"
    /\ lifecycle' = "Stopped"
    /\ pc' = "idle"
    /\ UNCHANGED <<dataVars, inflight, owed, origins, ctorVars, refDataService,
                   exrService, queue, nDates, everSent, staleLeft>>

\* ---------------------------------------------------------------- queries
\* A query operation is called; a date sweep is called with d dates.
QueryCall ==
    \E q \in QueryOps :
        /\ Begin(q)
        /\ \E d \in (IF q \in HistOps THEN 0..MaxDates ELSE {0}) : nDates' = d
        /\ staleLeft' = Len(queue)
        /\ owed' = IF err # NoErr THEN Min2(owed + inflight, MaxDates)
                   ELSE owed
        /\ inflight' = 0
        /\ origins' = [i \in 1..Len(origins) |->
                           IF origins[i] # "cur" THEN origins[i]
                           ELSE IF err # NoErr THEN "old" ELSE "none"]
        /\ pc' = IF q \in DrainingOps THEN "drain" ELSE "create"
        /\ UNCHANGED <<dataVars, ctorVars, sessVars, queue, everSent>>

\* One turn of "while(self._session.tryNextEvent()): pass".
Drain ==
    /\ pc = "drain"
    /\ queue' = Rest(queue)
    /\ origins' = Rest(origins)
    /\ staleLeft' = Dec(staleLeft)
    /\ pc' = IF queue # <<>> THEN "drain" ELSE "create"
    /\ UNCHANGED <<dataVars, inflight, owed, taken, ctorVars, sessVars, recvVars, sendVars, op, err, opens,
                   statuses>>

\* Mutant: _send_hist does not look at the length of dates.
CreateError_anydates(q, ref, exr, d) ==
    IF q = "bsrch" /\ ~exr THEN NoService
    ELSE IF q # "bsrch" /\ ~ref THEN NoService
    ELSE NoErr

\* What building the request raises: the service attribute is read first,
\* _send_hist checks the dates after _create_req has returned.
CreateError(q, ref, exr, d) ==
    IF q = "bsrch" /\ ~exr THEN NoService
    ELSE IF q # "bsrch" /\ ~ref THEN NoService
    ELSE IF q \in HistOps /\ d = 0 THEN EmptyDates
    ELSE NoErr

\* The request is built (createRequest and the fills that follow it).
Create ==
    /\ pc = "create"
    /\ LET e == CreateError(op, refDataService, exrService, nDates) IN
        /\ err' = e
        /\ pc' = IF e # NoErr THEN "idle" ELSE "send"
    /\ UNCHANGED <<dataVars, wireVars, ctorVars, sessVars, recvVars, sendVars, queue, op, opens,
                   statuses, staleLeft>>

\* sendRequest calls one operation makes: one per date in a date sweep.
SendsOf(q, d) == IF q \in HistOps THEN d ELSE 1

\* Mutant: every operation hands len(dates) to _receive_events.
ExpectedOf_dates(q, d) == d

\* The sent_events argument the operation hands to _receive_events.
ExpectedOf(q, d) == IF q \in HistOps THEN d ELSE 1

\* One self._session.sendRequest(...).
Send ==
    /\ pc = "send"
    /\ nSent' = nSent + 1
    /\ inflight' = inflight + 1
    /\ everSent' = TRUE
    /\ sendLife' = lifecycle
    /\ sendStale' = staleLeft
    /\ IF nSent + 1 = SendsOf(op, nDates)
       THEN /\ pc' = IF op = "beqs" THEN "beqs_poll" ELSE "recv_poll"
            /\ sent_events' = ExpectedOf(op, nDates)
            /\ expected' = ExpectedOf(op, nDates)
       ELSE /\ pc' = "send"
            /\ UNCHANGED <<sent_events, expected>>
    /\ UNCHANGED <<dataVars, owed, origins, taken, ctorVars, sessVars, polled,
                   yielded, warned, yidx, nDates, queue, op, err, opens,
                   statuses, staleLeft>>

\* --------------------------------------------------------- _receive_events
\* Mutant: the counter is decremented for a PARTIAL_RESPONSE too.
AfterEvent_partial(ev, cnt) ==
    IF ev.type \in RESPONSE_TYPES
    THEN [cnt |-> cnt - 1, err |-> NoErr,
          pc |-> IF cnt - 1 = 0 THEN "idle" ELSE "recv_poll"]
    ELSE [cnt |-> cnt, pc |-> "idle",
          err |-> IF ev.type = "TIMEOUT" THEN TimeoutError ELSE UnexpectedEvent]

\* Mutant: a TIMEOUT event is reported like any other unexpected event.
AfterEvent_timeout(ev, cnt) ==
    IF ev.type = "RESPONSE"
    THEN [cnt |-> cnt - 1, err |-> NoErr,
          pc |-> IF cnt - 1 = 0 THEN "idle" ELSE "recv_poll"]
    ELSE IF ev.type \notin RESPONSE_TYPES
    THEN [cnt |-> cnt, pc |-> "idle", err |-> UnexpectedEvent]
    ELSE [cnt |-> cnt, err |-> NoErr, pc |-> "recv_poll"]

\* Mutant: after an event that is not a response the loop polls again.
AfterEvent_retry(ev, cnt) ==
    IF ev.type = "RESPONSE"
    THEN [cnt |-> cnt - 1, err |-> NoErr,
          pc |-> IF cnt - 1 = 0 THEN "idle" ELSE "recv_poll"]
    ELSE IF ev.type \notin RESPONSE_TYPES
    THEN [cnt |-> cnt, pc |-> "recv_poll",
          err |-> IF ev.type = "TIMEOUT" THEN TimeoutError ELSE UnexpectedEvent]
    ELSE [cnt |-> cnt, err |-> NoErr, pc |-> "recv_poll"]

\* The loop body after the event's messages have been yielded: the counter,
\* and whether the generator goes on ("recv_poll"), ends or raises ("idle").
AfterEvent(ev, cnt) ==
    IF ev.type = "RESPONSE"
    THEN [cnt |-> cnt - 1, err |-> NoErr,
          pc |-> IF cnt - 1 = 0 THEN "idle" ELSE "recv_poll"]
    ELSE IF ev.type \notin RESPONSE_TYPES
    THEN [cnt |-> cnt, pc |-> "idle",
          err |-> IF ev.type = "TIMEOUT" THEN TimeoutError ELSE UnexpectedEvent]
    ELSE [cnt |-> cnt, err |-> NoErr, pc |-> "recv_poll"]

\* The messages the loop body logs at warning level for the i-th event.
WarnedOf(i, ev) == IF ev.type \notin RESPONSE_TYPES THEN MsgsOf(i, ev) ELSE <<>>

\* Mutant: the messages of an event are taken last first.
NextMsg_reversed(i, ev, j) == MsgsOf(i, ev)[ev.n - j + 1]

\* "for msg in ev": the message the j-th turn of the loop yields.
NextMsg(i, ev, j) == MsgsOf(i, ev)[j]

\* nextEvent(self.timeout), the _EVENT_DICT lookup, and, for an event that
\* yields nothing, the rest of the loop body.
RecvPoll(cap) ==
    /\ pc = "recv_poll"
    /\ Len(polled) < MaxPolls
    /\ \E ev \in Events(NextEventTimeout(queue), cap) :
        LET after == AfterEvent(ev, sent_events) IN
        /\ polled' = Append(polled, ev)
        /\ taken' = Append(taken, OriginOfNext)
        /\ queue' = Rest(queue)
        /\ origins' = Rest(origins)
        /\ staleLeft' = Dec(staleLeft)
        /\ IF ev.type \notin EVENT_DICT
           THEN /\ pc' = "idle"
                /\ err' = KeyErr
                /\ UNCHANGED <<yidx, sent_events, warned>>
           ELSE IF ev.type \in RESPONSE_TYPES /\ ev.n > 0
           THEN /\ pc' = "recv_yield"
                /\ yidx' = 1
                /\ UNCHANGED <<err, sent_events, warned>>
           ELSE /\ pc' = after.pc
                /\ err' = after.err
                /\ sent_events' = after.cnt
                /\ warned' = WarnedOf(Len(polled) + 1, ev)
                /\ yidx' = yidx
    /\ UNCHANGED <<dataVars, inflight, owed, ctorVars, sessVars, sendVars,
                   yielded, expected, op, opens, statuses>>

\* One "yield": the consumer takes the message and may raise on it; after the
\* event's last message the rest of the loop body runs.
RecvYield ==
    /\ pc = "recv_yield"
    /\ LET ev == polled[Len(polled)]
           after == AfterEvent(ev, sent_events) IN
        /\ yielded' = Append(yielded, NextMsg(Len(polled), ev, yidx))
        /\ \E bad \in (IF op \in ValidatingOps THEN BOOLEAN ELSE {FALSE}) :
            IF bad
            THEN /\ pc' = "idle"
                 /\ err' = ParseError
                 /\ UNCHANGED <<yidx, sent_events>>
            ELSE IF yidx < ev.n
            THEN /\ yidx' = yidx + 1
                 /\ UNCHANGED <<pc, err, sent_events>>
            ELSE /\ pc' = after.pc
                 /\ err' = after.err
                 /\ sent_events' = after.cnt
                 /\ yidx' = yidx
    /\ UNCHANGED <<dataVars, wireVars, ctorVars, sessVars, sendVars, polled,
                   warned, expected, queue, op, opens, statuses, staleLeft>>

\* -------------------------------------------------------------------- beqs
\* What one turn of _beqs' loop does with its event: _beqs_parse_event reads
\* every message as a response payload.
BeqsAfter(ev) ==
    IF ev.type \notin RESPONSE_TYPES /\ ev.n > 0
    THEN [pc |-> "idle", err |-> BeqsParseError]
    ELSE IF ev.type = "RESPONSE"
    THEN [pc |-> "idle", err |-> NoErr]
    ELSE [pc |-> "beqs_poll", err |-> NoErr]

\* One turn of _beqs' loop: nextEvent(500), _beqs_parse_event, the exit test.
BeqsPoll(cap) ==
    /\ pc = "beqs_poll"
    /\ Len(polled) < MaxPolls
    /\ \E ev \in Events(NextEventTimeout(queue), cap) :
        LET after == BeqsAfter(ev) IN
        /\ polled' = Append(polled, ev)
        /\ taken' = Append(taken, OriginOfNext)
        /\ queue' = Rest(queue)
        /\ origins' = Rest(origins)
        /\ staleLeft' = Dec(staleLeft)
        /\ pc' = after.pc
        /\ err' = after.err
    /\ UNCHANGED <<dataVars, inflight, owed, ctorVars, sessVars, sendVars,
                   yielded, warned, sent_events, expected, yidx, op, opens,
                   statuses>>

\* ------------------------------------------------------------ row parsers
\* A decoded value is a cell [kind, v]: a scalar, the missing-value marker
\* np.NaN, an int, a name, or a list (v: its elements).
NaN == [kind |-> "NaN", v |-> <<>>]

Scalar(x) == [kind |-> "scalar", v |-> <<x>>]

Pos(i) == [kind |-> "int", v |-> <<i>>]

Name(n) == [kind |-> "name", v |-> <<n>>]

\* The array a bulk field decodes to: k elements, each {fld: {name: value}}
\* of m names; the j-th element is kept as the mapping under fld.
List(k, m) ==
    [kind |-> "list",
     v |-> [j \in 1..k |-> [n \in 1..m |-> Scalar(<<j, n>>)]]]

\* Mutant: the value is tested against another type, isinstance(x, tuple).
IsList_tuple(x) == x.kind = "tuple"

\* isinstance(x, list)
IsList(x) == x.kind = "list"

\* What a field of fieldData can decode to.
FieldValues ==
    {Scalar(<<>>)} \cup {List(k, m) : k \in 0..MaxElems, m \in 1..MaxKeys}

\* The fieldExceptions array of a record with the fields in S missing.
FieldExceptions(S) ==
    LET One == [fieldId : S, subcategory : Subcategories] IN
    {<<>>} \cup {<<x>> : x \in One}
           \cup {p \in One \X One : p[1].fieldId # p[2].fieldId}

\* The securityData records of a ReferenceDataResponse: an unknown security
\* has a securityError and no data; a field with an exception has no data.
SecurityData ==
    [security : Tickers, securityError : {TRUE},
     fieldExceptions : {<<>>}, fieldData : {<<>>}]
    \cup
    UNION {[security : Tickers, securityError : {FALSE},
            fieldExceptions : FieldExceptions(Fields \ S),
            fieldData : [S -> FieldValues]] : S \in SUBSET Fields}

\* The fields of one entry of the fieldData array of a historical response,
\* in the entry's order.
BarFields == {<<f>> : f \in Fields} \cup
             {p \in Fields \X Fields : p[1] # p[2]}

\* The securityData record of a HistoricalDataResponse: fieldData is an
\* array of entries {date, field: value, ...}.
HistSecurityData ==
    [security : Tickers, securityError : {TRUE},
     fieldExceptions : {<<>>}, fieldData : {<<>>}]
    \cup
    UNION {[security : Tickers, securityError : {FALSE},
            fieldExceptions : FieldExceptions(Fields \ {fs[i] : i \in 1..Len(fs)}),
            fieldData : {[j \in 1..k |-> [date |-> j, fields |-> fs]]
                         : k \in 0..MaxElems}] : fs \in BarFields}

\* The lists of fields a caller asks for.
FldLists == BarFields

\* _check_fieldExceptions: the error of the first INVALID_FIELD entry.
RECURSIVE CheckFieldExceptions(_)
CheckFieldExceptions(field_exceptions) ==
    IF field_exceptions = <<>> THEN NoErr
    ELSE LET fe == Head(field_exceptions) IN
         IF fe.subcategory = "INVALID_FIELD" THEN InvalidField(fe.fieldId)
         ELSE CheckFieldExceptions(Tail(field_exceptions))

\* Mutant: a requested field that fieldData does not hold gets no row.
RECURSIVE RefFields_skip(_, _, _, _, _)
RefFields_skip(ticker, fieldData, fs, k, corrId) ==
    IF k > Len(fs) THEN [rows |-> <<>>, err |-> NoErr]
    ELSE LET fld == fs[k] IN
         IF fld \in DOMAIN fieldData /\ IsList(fieldData[fld])
         THEN [rows |-> <<>>, err |-> BulkInScalar(fld)]
         ELSE LET datum == [ticker |-> ticker, field |-> fld,
                            value |-> fieldData[fld], corrId |-> corrId]
                  rest == RefFields_skip(ticker, fieldData, fs, k + 1, corrId)
              IN [rows |-> (IF fld \in DOMAIN fieldData THEN <<datum>>
                            ELSE <<>>) \o rest.rows,
                  err |-> rest.err]

\* _parse_ref's "for fld in flds" from the k-th field on: the rows appended
\* and the error raised.
RECURSIVE RefFields(_, _, _, _, _)
RefFields(ticker, fieldData, fs, k, corrId) ==
    IF k > Len(fs) THEN [rows |-> <<>>, err |-> NoErr]
    ELSE LET fld == fs[k] IN
         IF fld \in DOMAIN fieldData /\ IsList(fieldData[fld])
         THEN [rows |-> <<>>, err |-> BulkInScalar(fld)]
         ELSE LET val == IF fld \notin DOMAIN fieldData THEN NaN
                         ELSE fieldData[fld]
                  datum == [ticker |-> ticker, field |-> fld, value |-> val,
                            corrId |-> corrId]
                  rest == RefFields(ticker, fieldData, fs, k + 1, corrId)
              IN [rows |-> <<datum>> \o rest.rows, err |-> rest.err]

\* "for name, value in data_dict[fld].items()" of the i-th element (i from
\* 0), from the n-th name on.
RECURSIVE BulkItems(_, _, _, _, _, _)
BulkItems(ticker, fld, items, i, n, corrId) ==
    IF n > Len(items) THEN <<>>
    ELSE <<[ticker |-> ticker, field |-> fld, name |-> Name(n),
            value |-> items[n], position |-> Pos(i), corrId |-> corrId]>>
         \o BulkItems(ticker, fld, items, i, n + 1, corrId)

\* Mutant: the positions are counted from one.
RECURSIVE BulkElements_onebased(_, _, _, _, _)
BulkElements_onebased(ticker, fld, elems, j, corrId) ==
    IF j > Len(elems) THEN <<>>
    ELSE BulkItems(ticker, fld, elems[j], j, 1, corrId)
         \o BulkElements_onebased(ticker, fld, elems, j + 1, corrId)

\* "for i, data_dict in enumerate(fieldData[fld])" from the j-th element on.
RECURSIVE BulkElements(_, _, _, _, _)
BulkElements(ticker, fld, elems, j, corrId) ==
    IF j > Len(elems) THEN <<>>
    ELSE BulkItems(ticker, fld, elems[j], j - 1, 1, corrId)
         \o BulkElements(ticker, fld, elems, j + 1, corrId)

\* _parse_bulkref's "for fld in flds" from the k-th field on.
RECURSIVE BulkFields(_, _, _, _, _)
BulkFields(ticker, fieldData, fs, k, corrId) ==
    IF k > Len(fs) THEN [rows |-> <<>>, err |-> NoErr]
    ELSE LET fld == fs[k] IN
         IF fld \in DOMAIN fieldData /\ ~IsList(fieldData[fld])
         THEN [rows |-> <<>>, err |-> NotBulk(fld)]
         ELSE LET rows == IF fld \in DOMAIN fieldData
                          THEN BulkElements(ticker, fld, fieldData[fld].v, 1,
                                            corrId)
                          ELSE <<[ticker |-> ticker, field |-> fld,
                                  name |-> NaN, value |-> NaN,
                                  position |-> NaN, corrId |-> corrId]>>
                  rest == BulkFields(ticker, fieldData, fs, k + 1, corrId)
              IN [rows |-> rows \o rest.rows, err |-> rest.err]

\* The body of "for security_data_dict in d" of _parse_ref (bulk = FALSE)
\* and of _parse_bulkref (bulk = TRUE).
SecurityRows(bulk, secData, fs, corrId) ==
    LET ticker == secData.security
        fe == CheckFieldExceptions(secData.fieldExceptions) IN
    IF secData.securityError
    THEN [rows |-> <<>>, err |-> UnknownSecurity(ticker)]
    ELSE IF fe # NoErr THEN [rows |-> <<>>, err |-> fe]
    ELSE IF bulk THEN BulkFields(ticker, secData.fieldData, fs, 1, corrId)
    ELSE RefFields(ticker, secData.fieldData, fs, 1, corrId)

\* "for fname, value in fd['fieldData'].items()" of one entry, from the
\* n-th field on; the date key is skipped.
RECURSIVE BarRows(_, _, _)
BarRows(ticker, fd, n) ==
    IF n > Len(fd.fields) THEN <<>>
    ELSE <<[date |-> fd.date, ticker |-> ticker, field |-> fd.fields[n],
            value |-> Scalar(<<fd.date, n>>)]>>
         \o BarRows(ticker, fd, n + 1)

\* "for fd in fldDatas" of _bdh_list from the j-th entry on.
RECURSIVE BdhRows(_, _, _)
BdhRows(ticker, fldDatas, j) ==
    IF j > Len(fldDatas) THEN <<>>
    ELSE BarRows(ticker, fldDatas[j], 1) \o BdhRows(ticker, fldDatas, j + 1)

\* The correlationIds of a message: the token of the request it answers.
CorrelationIds(q) ==
    IF q \in HistOps THEN {<<dt>> : dt \in Dates} ELSE {<<"auto">>}

\* Mutant: keep_corrId is not honoured, no row is extended.
CorrIdOf_dropped(q, m) == <<>>

\* keep_corrId: the rows of a date sweep are extended by correlationIds.
CorrIdOf(q, m) == IF q \in HistOps THEN m.correlationIds ELSE <<>>

\* One turn of "for security_data_dict in d" in _parse_ref / _parse_bulkref,
\* on the next record of the message at hand or the first of the next
\* message _receive_events yields.
ParseSecurity ==
    /\ pc = "parse"
    /\ op \in RefParsers \cup BulkParsers
    /\ seen < MaxRecords
    /\ \E cids \in (IF seen = 0 THEN {} ELSE {msg.correlationIds})
                    \cup CorrelationIds(op),
          secData \in SecurityData :
        LET m == [correlationIds |-> cids, securityData |-> secData]
            r == SecurityRows(op \in BulkParsers, secData, flds, CorrIdOf(op, m))
        IN /\ msg' = m
           /\ seen' = seen + 1
           /\ added' = r.rows
           /\ data' = data \o r.rows
           /\ err' = r.err
           /\ pc' = IF r.err # NoErr THEN "idle" ELSE "parse"
    /\ UNCHANGED <<connVars, sweepVars, reqVars, decodeVars, flds, carried, op>>

\* One turn of "for msg in self._receive_events()" in _bdh_list.
BdhMessage ==
    /\ pc = "parse"
    /\ op = "bdh"
    /\ seen < MaxRecords
    /\ \E cids \in CorrelationIds(op), secData \in HistSecurityData :
        LET has_security_error == secData.securityError
            has_field_exception == Len(secData.fieldExceptions) > 0
            rows == BdhRows(secData.security, secData.fieldData, 1)
        IN /\ msg' = [correlationIds |-> cids, securityData |-> secData]
           /\ seen' = seen + 1
           /\ IF has_security_error \/ has_field_exception
              THEN /\ err' = BdhError
                   /\ carried' = data
                   /\ added' = <<>>
                   /\ data' = data
                   /\ pc' = "idle"
              ELSE /\ err' = NoErr
                   /\ carried' = carried
                   /\ added' = rows
                   /\ data' = data \o rows
                   /\ pc' = "parse"
    /\ UNCHANGED <<connVars, sweepVars, reqVars, decodeVars, flds, op>>

\* _receive_events has ended: the parser returns data.
ParseReturn ==
    /\ pc = "parse"
    /\ seen > 0
    /\ pc' = "idle"
    /\ UNCHANGED <<connVars, sweepVars, reqVars, decodeVars, flds, msg, seen, data,
                   added, carried, op, err>>

\* ------------------------------------------------------------ _create_req
\* The (name, value) pairs a caller hands over as settings and as overrides.
Settings == {<<"startDate", "20160625">>, <<"endDate", "20160626">>}

Overrides == {<<"REFERENCE_DATE", "20160625">>, <<"CURVE_DATE", "20160626">>}

\* The lists of at most MaxArgs items of S.
ArgLists(S) == UNION {[1..n -> S] : n \in 0..MaxArgs}

\* refDataService.createRequest(rtype): a request with nothing filled in.
EmptyRequest ==
    [securities |-> <<>>, fields |-> <<>>, set |-> {}, overrides |-> <<>>]

\* _create_req after the flush: self.refDataService.createRequest(rtype).
CreateRequest ==
    /\ pc = "req_create"
    /\ request' = EmptyRequest
    /\ pc' = "req_securities"
    /\ UNCHANGED <<connVars, sweepVars, parseVars, decodeVars, flds, tickers, ovrds,
                   setvals, op, err>>

\* Mutant: the ticker is put in front of the securities already there.
AppendTicker_front ==
    /\ pc = "req_securities"
    /\ LET k == Len(request.securities) + 1 IN
        IF k <= Len(tickers)
        THEN /\ request' = [request EXCEPT
                    !.securities = <<tickers[k]>> \o request.securities]
             /\ pc' = pc
        ELSE /\ request' = request
             /\ pc' = "req_fields"
    /\ UNCHANGED <<connVars, sweepVars, parseVars, decodeVars, flds, tickers, ovrds,
                   setvals, op, err>>

\* One turn of "for t in tickers": getElement('securities').appendValue(t).
AppendTicker ==
    /\ pc = "req_securities"
    /\ LET k == Len(request.securities) + 1 IN
        IF k <= Len(tickers)
        THEN /\ request' = [request EXCEPT
                    !.securities = Append(request.securities, tickers[k])]
             /\ pc' = pc
        ELSE /\ request' = request
             /\ pc' = "req_fields"
    /\ UNCHANGED <<connVars, sweepVars, parseVars, decodeVars, flds, tickers, ovrds,
                   setvals, op, err>>

\* One turn of "for f in flds": getElement('fields').appendValue(f).
AppendField ==
    /\ pc = "req_fields"
    /\ LET k == Len(request.fields) + 1 IN
        IF k <= Len(flds)
        THEN /\ request' = [request EXCEPT
                    !.fields = Append(request.fields, flds[k])]
             /\ pc' = pc
        ELSE /\ request' = request
             /\ pc' = "req_set"
    /\ UNCHANGED <<connVars, sweepVars, parseVars, decodeVars, flds, tickers, ovrds,
                   setvals, op, err>>

\* "for name, val in setvals: request.set(name, val)": a later value of a
\* name takes the place of an earlier one.
RECURSIVE SetAll(_, _)
SetAll(set, vals) ==
    IF vals = <<>> THEN set
    ELSE SetAll({p \in set : p[1] # Head(vals)[1]} \cup {Head(vals)},
                Tail(vals))

\* The loop over setvals and overrides = request.getElement('overrides').
SetValues ==
    /\ pc = "req_set"
    /\ request' = [request EXCEPT !.set = SetAll(request.set, setvals)]
    /\ pc' = "req_overrides"
    /\ UNCHANGED <<connVars, sweepVars, parseVars, decodeVars, flds, tickers, ovrds,
                   setvals, op, err>>

\* One turn of "for ovrd_fld, ovrd_val in ovrds": appendElement() and the
\* two setElement calls; after the last turn, "return request".
AppendOverride ==
    /\ pc = "req_overrides"
    /\ LET k == Len(request.overrides) + 1 IN
        IF k <= Len(ovrds)
        THEN /\ request' = [request EXCEPT
                    !.overrides = Append(request.overrides,
                                         [fieldId |-> ovrds[k][1],
                                          value |-> ovrds[k][2]])]
             /\ pc' = pc
        ELSE /\ request' = request
             /\ pc' = "idle"
    /\ UNCHANGED <<connVars, sweepVars, parseVars, decodeVars, flds, tickers, ovrds,
                   setvals, op, err>>

\* -------------------------------------------------------------- _send_hist
\* The lists of at most MaxDates dates, repeats included.
DateLists == UNION {[1..n -> Dates] : n \in 0..MaxDates}

\* What _create_req returns for the arguments of a date sweep.
BuiltRequest(ts, fs, os) ==
    [securities |-> ts, fields |-> fs, set |-> {},
     overrides |-> [k \in 1..Len(os) |->
                       [fieldId |-> os[k][1], value |-> os[k][2]]]]

\* _send_hist after _create_req: the test of len(dates) and
\* ovrd = overrides.appendElement().
SweepCheck ==
    /\ pc = "hist_check"
    /\ IF Len(dates) = 0
       THEN /\ err' = EmptyDates
            /\ pc' = "idle"
            /\ request' = request
       ELSE /\ err' = err
            /\ pc' = "hist_send"
            /\ request' = [request EXCEPT
                   !.overrides = Append(request.overrides,
                                        [fieldId |-> "", value |-> ""])]
    /\ UNCHANGED <<connVars, parseVars, decodeVars, sweepVars, flds, tickers,
                   ovrds, setvals, op>>

\* The request with its last override, ovrd, set to the date dt.
WithDate(req, dt) ==
    [req EXCEPT !.overrides[Len(req.overrides)] =
                    [fieldId |-> DateField, value |-> dt]]

\* The session is still answering a request sent with the correlation id cid.
InUse(cid) == \E i \in 1..Len(sends) : sends[i].live /\ sends[i].cid = cid

\* One turn of "for dt in dates": the two setElement calls on ovrd,
\* cid = blpapi.CorrelationId(dt) and sendRequest, which refuses a
\* correlation id that is in use; after the last turn _send_hist returns.
SweepSend ==
    /\ pc = "hist_send"
    /\ LET k == Len(sends) + 1 IN
        IF k <= Len(dates)
        THEN LET dt == dates[k]
                 cid == dt IN
             /\ request' = WithDate(request, dt)
             /\ IF InUse(cid)
                THEN /\ err' = DuplicateCorrelationId
                     /\ pc' = "idle"
                     /\ sends' = sends
                ELSE /\ err' = err
                     /\ pc' = pc
                     /\ sends' = Append(sends, [request |-> request',
                                                cid |-> cid, live |-> TRUE])
        ELSE /\ pc' = "hist_recv"
             /\ UNCHANGED <<request, sends, err>>
    /\ UNCHANGED <<connVars, parseVars, decodeVars, dates, flds, tickers,
                   ovrds, setvals, op>>

\* The session sends the last event of its answer to one of the requests.
SweepAnswered ==
    /\ pc \in {"hist_send", "hist_recv"}
    /\ \E i \in 1..Len(sends) :
        /\ sends[i].live
        /\ sends' = [sends EXCEPT ![i].live = FALSE]
    /\ UNCHANGED <<connVars, reqVars, parseVars, decodeVars, dates, flds, pc,
                   op, err>>

\* ref_hist / bulkref_hist after _send_hist: the row parser is called with
\* sent_events=len(dates) and starts _receive_events with it.
SweepReceive ==
    /\ pc = "hist_recv"
    /\ expected' = Len(dates)
    /\ sent_events' = Len(dates)
    /\ pc' = "idle"
    /\ UNCHANGED <<dataVars, ctorVars, sessVars, sendVars, wireVars, queue,
                   opens, statuses, staleLeft, polled, yielded, warned, yidx,
                   op, err>>

\* -------------------------------------------------------- _element_to_dict
\* What _element_to_dict is handed: a blpapi Element
\*   [kind |-> "leaf", name, state]     a scalar Element: it holds a value,
\*                                      is null, or getValue() raises on it
\*   [kind |-> "choice", name, items]   datatype CHOICE, items = <<getChoice()>>
\*   [kind |-> "sequence", name, items] datatype SEQUENCE, items = elements()
\*   [kind |-> "array", name, items]    isArray(), items = values()
\* or, as an item of an array of scalars, the value itself:
\*   [kind |-> "str"]                   a str
\*   [kind |-> "number"]                an int, a float, a bool or a datetime
\* The children of a record are named by their place, as are a choice's
\* variant (1) and the root (0); the items of an array are values (all str
\* or all numbers) or SEQUENCE Elements that bear the array's name.
LeafStates == {"value", "null", "broken"}

\* The sequences of 0..MaxWidth items, the i-th drawn from S[i].
Lists(S) ==
    UNION {{f \in [1..n -> UNION {S[i] : i \in 1..n}] :
                \A i \in 1..n : f[i] \in S[i]} : n \in 0..MaxWidth}

\* The SEQUENCE Elements of the given name, nested at most d deep.
RECURSIVE Elements(_, _)
Records(d, name) ==
    IF d = 0 THEN {}
    ELSE {[kind |-> "sequence", name |-> name, items |-> c] :
            c \in Lists([i \in 1..MaxWidth |-> Elements(d - 1, i)])}

\* The Elements of the given name, nested at most d deep.
Elements(d, name) ==
    {[kind |-> "leaf", name |-> name, state |-> st] : st \in LeafStates}
    \cup
    (IF d = 0 THEN {}
     ELSE {[kind |-> "choice", name |-> name, items |-> <<c>>] :
              c \in Elements(d - 1, 1)}
          \cup Records(d, name)
          \cup {[kind |-> "array", name |-> name, items |-> c] :
                  c \in Lists([i \in 1..MaxWidth |-> {[kind |-> "str"]}])
                     \cup Lists([i \in 1..MaxWidth |-> {[kind |-> "number"]}])
                     \cup Lists([i \in 1..MaxWidth |-> Records(d - 1, name)])})

\* The documents _element_to_dict returns: a str, a value got with
\* getValue(), None, a list, or a dict kept as its (key, value) pairs in
\* insertion order.
DStr == [t |-> "str", items |-> <<>>]

DValue == [t |-> "value", items |-> <<>>]

DNone == [t |-> "None", items |-> <<>>]

\* Mutant: the list is built last item first.
DList_reversed(items) ==
    [t |-> "list",
     items |-> [i \in 1..Len(items) |-> items[Len(items) - i + 1]]]

DList(items) == [t |-> "list", items |-> items]

DDict(pairs) == [t |-> "dict", items |-> pairs]

\* _element_to_dict(elem): the document returned, or the exception raised.
RECURSIVE ElementToDict(_)
ElementToDict(e) ==
    IF e.kind = "str" THEN [err |-> NoErr, doc |-> DStr]
    ELSE IF e.kind = "number" THEN [err |-> NoDatatype, doc |-> DNone]
    ELSE IF e.kind = "leaf"
    THEN [err |-> NoErr,
          doc |-> IF e.state = "value" THEN DValue ELSE DNone]
    ELSE LET sub == [i \in 1..Len(e.items) |-> ElementToDict(e.items[i])]
             bad == {i \in 1..Len(e.items) : sub[i].err # NoErr}
             docs == [i \in 1..Len(e.items) |-> sub[i].doc]
         IN IF bad # {}
            THEN [err |-> sub[CHOOSE i \in bad : \A j \in bad : i <= j].err,
                  doc |-> DNone]
            ELSE IF e.kind = "choice"
            THEN [err |-> NoErr, doc |-> DDict(<<<<e.name, docs[1]>>>>)]
            ELSE IF e.kind = "array"
            THEN [err |-> NoErr, doc |-> DList(docs)]
            ELSE [err |-> NoErr,
                  doc |-> DDict(<<<<e.name,
                      DDict([i \in 1..Len(e.items) |->
                                <<e.items[i].name, docs[i]>>])>>>>)]

\* decode(node): one call of _element_to_dict on the node at hand.
Decode ==
    /\ pc = "decode"
    /\ LET r == ElementToDict(elem) IN
        /\ doc' = r.doc
        /\ err' = r.err
    /\ pc' = "idle"
    /\ UNCHANGED <<connVars, sweepVars, reqVars, parseVars, flds, elem, op>>

\* ---------------------------------------------------------- specifications
\* The whole lifecycle of one BCon, from its construction on.
Next ==
    \/ Deliver
    \/ Construct
    \/ StartCall
    \/ StartHandshake
    \/ StartNotStarted
    \/ OpenService
    \/ Stop
    \/ QueryCall
    \/ Drain
    \/ Create
    \/ Send
    \/ RecvPoll(MaxLifecycleMsgs)
    \/ RecvYield
    \/ BeqsPoll(MaxLifecycleMsgs)

Spec == Init /\ [][Next]_vars

\* A BCon whose start() has returned: both services open, nothing queued.
InitPump ==
    /\ bcon = "built"
    /\ sessState = "started"
    /\ refDataService = TRUE
    /\ exrService = TRUE
    /\ lifecycle = "Ready"
    /\ queue = <<>>
    /\ pc = "idle"
    /\ op = "start"
    /\ err = NoErr
    /\ statuses = <<>>
    /\ polled = <<>>
    /\ opens = <<>>
    /\ yielded = <<>>
    /\ warned = <<>>
    /\ sent_events = 0
    /\ expected = 0
    /\ yidx = 0
    /\ nDates = 0
    /\ nSent = 0
    /\ staleLeft = 0
    /\ sendLife = "none"
    /\ sendStale = 0
    /\ everSent = FALSE
    /\ inflight = 0
    /\ owed = 0
    /\ origins = <<>>
    /\ taken = <<>>
    /\ NoData

\* The queries of a started BCon, with events of up to MaxMsgs messages.
NextPump ==
    \/ Deliver
    \/ QueryCall
    \/ Drain
    \/ Create
    \/ Send
    \/ RecvPoll(MaxMsgs)
    \/ RecvYield
    \/ BeqsPoll(MaxMsgs)

SpecPump == InitPump /\ [][NextPump]_vars

\* bopen: con = BCon(**kwargs) has returned and con.start() is called.
OpenStart ==
    /\ op \in {"__init__()", "__init__(session)"}
    /\ StartCall

\* bopen: con.start() has returned and the managed block runs, or one of its
\* queries has ended.
InBlock ==
    \/ op = "start" /\ pc = "idle" /\ err = NoErr
    \/ op \in QueryOps /\ pc = "idle"

\* The managed block calls a query on the connection it was handed.
BlockQuery == InBlock /\ QueryCall

\* bopen: the managed block has returned or raised; "finally: con.stop()".
OpenStop == InBlock /\ Stop

\* bopen has exited: the constructor or con.start() raised, or con.stop()
\* has run.
OpenExited ==
    \/ bcon = "failed"
    \/ op = "start" /\ pc = "idle" /\ err # NoErr
    \/ op = "stop"

\* One use of bopen, from the construction of its BCon to its exit.
NextOpen ==
    \/ Deliver
    \/ Construct
    \/ OpenStart
    \/ StartHandshake
    \/ StartNotStarted
    \/ OpenService
    \/ BlockQuery
    \/ Drain
    \/ Create
    \/ Send
    \/ RecvPoll(MaxLifecycleMsgs)
    \/ RecvYield
    \/ BeqsPoll(MaxLifecycleMsgs)
    \/ OpenStop

SpecOpen == Init /\ [][NextOpen]_vars

\* The queries of a started BCon whose session queues nothing but the answers
\* to the requests sent to it.
NextAnswered ==
    \/ Answer
    \/ QueryCall
    \/ Drain
    \/ Create
    \/ Send
    \/ RecvPoll(MaxMsgs)
    \/ RecvYield
    \/ BeqsPoll(MaxMsgs)

SpecAnswered == InitPump /\ [][NextAnswered]_vars

\* The connection as the constructor leaves it.
NoConnection ==
    /\ bcon = "built"
    /\ sessState = "new"
    /\ refDataService = FALSE
    /\ exrService = FALSE
    /\ lifecycle = "Disconnected"
    /\ queue = <<>>
    /\ statuses = <<>>
    /\ polled = <<>>
    /\ opens = <<>>
    /\ yielded = <<>>
    /\ warned = <<>>
    /\ sent_events = 0
    /\ expected = 0
    /\ yidx = 0
    /\ nDates = 0
    /\ nSent = 0
    /\ staleLeft = 0
    /\ sendLife = "none"
    /\ sendStale = 0
    /\ everSent = FALSE
    /\ inflight = 0
    /\ owed = 0
    /\ origins = <<>>
    /\ taken = <<>>

\* A row parser is about to read its first message.
InitParse ==
    /\ NoConnection
    /\ pc = "parse"
    /\ op \in ValidatingOps
    /\ err = NoErr
    /\ flds \in FldLists
    /\ tickers = <<>>
    /\ ovrds = <<>>
    /\ setvals = <<>>
    /\ request = <<>>
    /\ msg = <<>>
    /\ seen = 0
    /\ data = <<>>
    /\ added = <<>>
    /\ carried = <<>>
    /\ dates = <<>>
    /\ sends = <<>>
    /\ elem = <<>>
    /\ doc = <<>>

\* The row parsers over the messages _receive_events yields.
NextParse ==
    \/ ParseSecurity
    \/ BdhMessage
    \/ ParseReturn

SpecParse == InitParse /\ [][NextParse]_vars

\* _create_req has flushed an empty queue and is about to build a request.
InitRequest ==
    /\ NoConnection
    /\ pc = "req_create"
    /\ op = "_create_req"
    /\ err = NoErr
    /\ tickers \in ArgLists(Tickers)
    /\ flds \in ArgLists(Fields)
    /\ ovrds \in ArgLists(Overrides)
    /\ setvals \in ArgLists(Settings)
    /\ request = EmptyRequest
    /\ msg = <<>>
    /\ seen = 0
    /\ data = <<>>
    /\ added = <<>>
    /\ carried = <<>>
    /\ dates = <<>>
    /\ sends = <<>>
    /\ elem = <<>>
    /\ doc = <<>>

NextRequest ==
    \/ CreateRequest
    \/ AppendTicker
    \/ AppendField
    \/ SetValues
    \/ AppendOverride

SpecRequest == InitRequest /\ [][NextRequest]_vars

\* _element_to_dict is about to be called on a node.
InitDecode ==
    /\ NoConnection
    /\ pc = "decode"
    /\ op = "_element_to_dict"
    /\ err = NoErr
    /\ elem \in Elements(MaxDepth, 0)
    /\ doc = DNone
    /\ tickers = <<>>
    /\ flds = <<>>
    /\ ovrds = <<>>
    /\ setvals = <<>>
    /\ request = <<>>
    /\ msg = <<>>
    /\ seen = 0
    /\ data = <<>>
    /\ added = <<>>
    /\ carried = <<>>
    /\ dates = <<>>
    /\ sends = <<>>

NextDecode == Decode

SpecDecode == InitDecode /\ [][NextDecode]_vars

\* A date sweep whose _create_req has returned the built request.
InitSweep ==
    /\ NoConnection
    /\ pc = "hist_check"
    /\ op \in HistOps
    /\ err = NoErr
    /\ dates \in DateLists
    /\ sends = <<>>
    /\ tickers \in {<<t>> : t \in Tickers}
    /\ flds \in {<<f>> : f \in Fields}
    /\ ovrds \in ArgLists(Overrides)
    /\ setvals = <<>>
    /\ request = BuiltRequest(tickers, flds, ovrds)
    /\ msg = <<>>
    /\ seen = 0
    /\ data = <<>>
    /\ added = <<>>
    /\ carried = <<>>
    /\ elem = <<>>
    /\ doc = <<>>

NextSweep ==
    \/ SweepCheck
    \/ SweepSend
    \/ SweepAnswered
    \/ SweepReceive

SpecSweep == InitSweep /\ [][NextSweep]_vars

\* ------------------------------------------------------------------ claims
\* The operations that read their responses through _receive_events.
RecvOps == QueryOps \ {"beqs"}

Last(h) == h[Len(h)]

Front(h) == SubSeq(h, 1, Len(h) - 1)

\* How many of the events of h are RESPONSE events.
Responses(h) == Cardinality({i \in 1..Len(h) : h[i].type = "RESPONSE"})

\* The messages of the RESPONSE and PARTIAL_RESPONSE events of h, event by
\* event in the order of h, each event's messages in the event's order.
MessagesIn(h) ==
    LET f[k \in 0..Len(h)] ==
            IF k = 0 THEN <<>>
            ELSE f[k - 1] \o (IF h[k].type \in RESPONSE_TYPES
                              THEN MsgsOf(k, h[k]) ELSE <<>>)
    IN f[Len(h)]

\* The operation has returned to its caller without an error.
Returned == pc = "idle" /\ err = NoErr

\* C1: a traversal started with sent_events = N >= 1 over RESPONSE and
\* PARTIAL_RESPONSE events is still running as long as fewer than N RESPONSE
\* events have been polled, and when it has ended exactly N RESPONSE events
\* have been polled, the N-th is the last event polled and all its messages
\* have been yielded, whatever the number of PARTIAL_RESPONSE events.
C1_EndsAtNthResponse ==
    (op \in RecvOps /\ expected >= 1) =>
        /\ pc = "recv_poll" => Responses(polled) < expected
        /\ pc = "recv_yield" => Responses(Front(polled)) < expected
        /\ Returned =>
            /\ Responses(polled) = expected
            /\ Last(polled).type = "RESPONSE"
            /\ \A i \in 1..Len(polled) : polled[i].type \in RESPONSE_TYPES
            /\ Last(polled).n > 0 =>
                /\ yielded # <<>>
                /\ Last(yielded) = <<Len(polled), Last(polled).n>>

\* A date sweep over two dates has returned after a PARTIAL_RESPONSE and two
\* RESPONSE events.
C1_Witness ==
    /\ Returned
    /\ op \in HistOps
    /\ expected = 2
    /\ Len(polled) = 3
    /\ \E i \in 1..2 : polled[i].type = "PARTIAL_RESPONSE"

\* C2 as claimed: every sendRequest is made while the connection is Ready.
C2_SendOnlyWhenReady == sendLife \in {"none", "Ready"}

\* C3 as claimed: start() goes on to open services only after two
\* SESSION_STATUS events in a row, and a handshake that polls anything else
\* fails with a ConnectionError.
C3_HandshakeOrConnectionError ==
    op = "start" =>
        /\ (pc \in {"svc_refdata", "svc_exrsvc"} \/ opens # <<>>) =>
            /\ Len(statuses) >= 2
            /\ statuses[1] = "SESSION_STATUS"
            /\ statuses[2] = "SESSION_STATUS"
        /\ (pc = "idle" /\ err # NoErr /\ opens = <<>>) =>
            err.cls = "ConnectionError"

\* The service whose opening the k-th openService call of a start() is.
ServiceName(k) == IF k = 1 THEN "//blp/refdata" ELSE "//blp/exrsvc"

\* start() has returned: each of the two openService calls reported success
\* and the event polled after each was a SERVICE_STATUS event.
C4_ReadyOnlyIfOpened ==
    (op = "start" /\ Returned) =>
        /\ lifecycle = "Ready"
        /\ opens = <<TRUE, TRUE>>
        /\ Len(statuses) >= 2
        /\ statuses[Len(statuses) - 1] = "SERVICE_STATUS"
        /\ statuses[Len(statuses)] = "SERVICE_STATUS"
        /\ refDataService /\ exrService

\* start() has failed while opening a service.
OpenFailed == op = "start" /\ pc = "idle" /\ err # NoErr /\ opens # <<>>

\* C4 as claimed: a service opening that fails, fails with a ConnectionError.
C4_OpenFailsWithConnectionError ==
    /\ C4_ReadyOnlyIfOpened
    /\ OpenFailed => (err.cls = "ConnectionError" /\ lifecycle # "Ready")

\* A step records a service handle only when it is an openService of that
\* service that reported success and was followed by a SERVICE_STATUS event.
C4_HandleStep ==
    /\ refDataService' # refDataService =>
        /\ pc = "svc_refdata" /\ refDataService'
        /\ Last(opens') /\ Last(statuses') = "SERVICE_STATUS"
    /\ exrService' # exrService =>
        /\ pc = "svc_exrsvc" /\ exrService'
        /\ Last(opens') /\ Last(statuses') = "SERVICE_STATUS"

\* C4, amended: start() returns only if both opens reported success and one
\* SERVICE_STATUS event was consumed for each; otherwise the bring-up fails
\* (KeyError for an event type outside _EVENT_DICT, RuntimeError for another
\* event type, ConnectionError for a failed open), the connection does not
\* become Ready, and no handle is recorded for a service that did not open.
C4_OpenFailsWithError ==
    /\ [](/\ C4_ReadyOnlyIfOpened
          /\ OpenFailed =>
              /\ lifecycle # "Ready"
              /\ err = IF Last(statuses) \notin EVENT_DICT THEN KeyErr
                       ELSE IF Last(statuses) # "SERVICE_STATUS"
                       THEN ExpectedServiceStatus
                       ELSE CouldNotOpen(ServiceName(Len(opens)))
              /\ Last(statuses) = "SERVICE_STATUS" => ~Last(opens))
    /\ [][C4_HandleStep]_vars

\* start() has failed on the second service after the first one opened.
C4_Witness ==
    /\ OpenFailed
    /\ opens = <<TRUE, FALSE>>
    /\ err = CouldNotOpen("//blp/exrsvc")
    /\ refDataService
    /\ ~exrService

\* C5: a TIMEOUT event polled by _receive_events ends the traversal at once
\* with the Timeout error, which is not the UnexpectedEvent error and names
\* BCon.timeout; none of its messages is yielded and it is the last event
\* polled.
C5_TimeoutRaises ==
    (op \in RecvOps /\ \E i \in 1..Len(polled) : polled[i].type = "TIMEOUT") =>
        /\ Last(polled).type = "TIMEOUT"
        /\ \A i \in 1..(Len(polled) - 1) : polled[i].type \in RESPONSE_TYPES
        /\ pc = "idle"
        /\ err = TimeoutError
        /\ err # UnexpectedEvent
        /\ err.msg = "Timeout, increase BCon.timeout attribute"
        /\ yielded = MessagesIn(Front(polled))
        /\ Responses(polled) < expected

\* A traversal has timed out after it had yielded messages.
C5_Witness ==
    /\ op \in RecvOps
    /\ err = TimeoutError
    /\ Len(polled) >= 2
    /\ yielded # <<>>

\* C6 as claimed: an event that is neither a response nor a TIMEOUT makes
\* _receive_events raise UnexpectedEvent after logging all its messages.
C6_UnexpectedEventLogged ==
    (/\ op \in RecvOps
     /\ polled # <<>>
     /\ Last(polled).type \notin RESPONSE_TYPES \cup {"TIMEOUT"}) =>
        /\ pc = "idle"
        /\ err = UnexpectedEvent
        /\ warned = MsgsOf(Len(polled), Last(polled))

\* C7: what _receive_events has yielded is the messages of the response
\* events it has polled, in poll order and each event's own order: up to the
\* current message while an event is being yielded, all of them otherwise
\* (unless the consumer stopped the traversal by raising on a message).
C7_YieldOrder ==
    op \in RecvOps =>
        /\ Len(yielded) <= Len(MessagesIn(polled))
        /\ yielded = SubSeq(MessagesIn(polled), 1, Len(yielded))
        /\ pc = "recv_yield" =>
            Len(yielded) = Len(MessagesIn(Front(polled))) + yidx - 1
        /\ (pc \in {"recv_poll", "idle"} /\ err # ParseError) =>
            yielded = MessagesIn(polled)

\* A traversal has returned after yielding two messages of one event and
\* then a message of the next event.
C7_Witness ==
    /\ op \in RecvOps
    /\ Returned
    /\ Len(polled) >= 2
    /\ polled[1].n = 2
    /\ Len(yielded) >= 3

\* C8 as claimed: at every sendRequest of a query, no event that was queued
\* before the query was called is still in the queue.
C8_DrainedBeforeSend == sendLife # "none" => sendStale = 0

\* C9: a constructor given a session polls it exactly once; a poll that is
\* not a TIMEOUT fails the construction with the flush error, after which
\* there is no BCon and nothing is ever sent; a TIMEOUT poll gives a
\* Disconnected BCon.
C9_AdoptOnlyEmptySession ==
    /\ op = "__init__(session)" =>
        /\ Len(statuses) = 1
        /\ bcon = IF statuses[1] = "TIMEOUT" THEN "built" ELSE "failed"
        /\ lifecycle = "Disconnected"
        /\ sessState = "new"
    /\ bcon = "failed" =>
        /\ op = "__init__(session)"
        /\ err = FlushError
        /\ err.cls = "ValueError"
        /\ pc = "idle"
        /\ ~everSent
        /\ ~ENABLED (QueryCall \/ StartCall \/ Send)
    /\ (bcon = "built" /\ op = "__init__(session)") => err = NoErr

\* The constructor has refused a session that had an event queued.
C9_Witness == bcon = "failed" /\ statuses = <<"SERVICE_STATUS">>

\* C10: stop() can be called whenever the BCon is not inside another call;
\* after it the connection is Stopped and no error was raised, and calling
\* stop() again changes nothing.
C10_StopIdempotent ==
    /\ (bcon = "built" /\ pc = "idle") => ENABLED Stop
    /\ op = "stop" =>
        /\ lifecycle = "Stopped"
        /\ sessState = "stopped"
        /\ err = NoErr
        /\ pc = "idle"
        /\ ~ENABLED <<Stop>>_vars

\* stop() has been called after a start() that failed while opening services.
C10_Witness ==
    /\ op = "stop"
    /\ refDataService
    /\ ~exrService
    /\ lifecycle = "Stopped"

\* A step of the parser appends its rows to data and touches no other; the
\* return appends nothing.
RowsAppended ==
    IF pc' = "idle" /\ err' = NoErr THEN data' = data
    ELSE data' = data \o added'

\* C11: in a date sweep every row is extended by exactly the correlation
\* token of the message it was decoded from, a date of the sweep, whatever
\* the order in which the messages of the responses arrive; a row, once in
\* data, is not changed by the messages that follow.
C11_RowsCarryOwnToken ==
    /\ [](op \in HistOps =>
            \A i \in 1..Len(added) :
                /\ added[i].corrId = msg.correlationIds
                /\ Len(added[i].corrId) = 1
                /\ added[i].corrId[1] \in Dates)
    /\ [][RowsAppended]_vars

\* A date sweep holds rows of the response for the later date before rows of
\* the response for the earlier date.
C11_Witness ==
    /\ op \in HistOps
    /\ Len(data) >= 2
    /\ data[1].corrId = <<"20160626">>
    /\ data[Len(data)].corrId = <<"20160625">>
    /\ added # <<>>

\* The record the parser's latest step went through.
LastRecord == msg.securityData

\* C12 as claimed: a security-data record with a securityError makes the
\* query fail with an error that names the unknown security and carries the
\* rows accumulated before it.
C12_SecurityErrorKeepsRows ==
    (op \in ValidatingOps /\ seen > 0 /\ LastRecord.securityError) =>
        /\ pc = "idle"
        /\ err = UnknownSecurity(LastRecord.security)
        /\ carried = data

\* The entries of the field exceptions fes that are INVALID_FIELD.
Invalid(fes) == {i \in 1..Len(fes) : fes[i].subcategory = "INVALID_FIELD"}

\* The errors a row parser raises for a field of the wrong shape.
MismatchErrors == {BulkInScalar(f) : f \in Fields} \cup
                  {NotBulk(f) : f \in Fields}

\* C13 as claimed: on every validating path, a record (of a known security)
\* with an INVALID_FIELD field exception makes the query fail with an error
\* naming that field, and a record whose field exceptions all have another
\* subcategory does not make the query fail on their account.
C13_OnlyInvalidFieldFails ==
    (op \in ValidatingOps /\ seen > 0 /\ ~LastRecord.securityError) =>
        LET fes == LastRecord.fieldExceptions IN
        /\ Invalid(fes) # {} =>
            /\ pc = "idle"
            /\ \E i \in Invalid(fes) : err = InvalidField(fes[i].fieldId)
        /\ Invalid(fes) = {} => err \in {NoErr} \cup MismatchErrors

\* The latest step of _parse_ref / _parse_bulkref went through a record of
\* a known security without an INVALID_FIELD exception.
ResolvedStep ==
    /\ op \in RefParsers \cup BulkParsers
    /\ seen > 0
    /\ ~LastRecord.securityError
    /\ Invalid(LastRecord.fieldExceptions) = {}

\* The requested fields (by place in flds) that are present in the record
\* with the shape the path does not take: a list on the scalar path,
\* anything else on the bulk path.
WrongShape ==
    {k \in 1..Len(flds) :
        /\ flds[k] \in DOMAIN LastRecord.fieldData
        /\ (LastRecord.fieldData[flds[k]].kind = "list") = (op \in RefParsers)}

Min(S) == CHOOSE k \in S : \A j \in S : k <= j

Absent == {k \in 1..Len(flds) : flds[k] \notin DOMAIN LastRecord.fieldData}

\* The rows the latest step appended for the k-th requested field.
RowsFor(k) == {i \in 1..Len(added) : added[i].field = flds[k]}

\* The i-th appended row is the missing-value row of the record's security.
IsNaNRow(i) ==
    /\ added[i].ticker = LastRecord.security
    /\ added[i].value.kind = "NaN"
    /\ op \in BulkParsers =>
        (added[i].name.kind = "NaN" /\ added[i].position.kind = "NaN")

\* The place in flds of the field of the i-th appended row.
PlaceOf(i) == CHOOSE k \in 1..Len(flds) : flds[k] = added[i].field

\* The appended rows follow the order of the requested fields.
InFieldOrder ==
    \A i \in 1..Len(added) : \A j \in i..Len(added) : PlaceOf(i) <= PlaceOf(j)

\* C15 as claimed: on a resolved record every requested field that is
\* absent gets exactly one missing-value row and the query does not fail.
C15_AbsentFieldOneNaNRow ==
    ResolvedStep =>
        /\ \A k \in Absent :
            /\ Cardinality(RowsFor(k)) = 1
            /\ \A i \in RowsFor(k) : IsNaNRow(i)
        /\ Absent # {} => err = NoErr
        /\ InFieldOrder

\* C15, amended: on a resolved record every requested field that is absent
\* and not behind a requested field of the wrong shape gets exactly one
\* missing-value row; the fields behind the first field of the wrong shape
\* get no row; the step fails only for a field of the wrong shape, never
\* for an absent one; rows are appended in requested-field order.
C15_ReachedAbsentFieldOneNaNRow ==
    ResolvedStep =>
        /\ \A k \in Absent :
            IF \A j \in WrongShape : k < j
            THEN /\ Cardinality(RowsFor(k)) = 1
                 /\ \A i \in RowsFor(k) : IsNaNRow(i)
            ELSE RowsFor(k) = {}
        /\ WrongShape = {} => err = NoErr
        /\ err # NoErr => \E k \in WrongShape \ Absent :
                              err \in {BulkInScalar(flds[k]), NotBulk(flds[k])}
        /\ InFieldOrder

\* The scalar path has appended a missing-value row for its first field and
\* the row of the second, and the parser has returned.
C15_Witness ==
    /\ ResolvedStep
    /\ op \in RefParsers
    /\ Returned
    /\ Absent = {1}
    /\ Len(added) = 2
    /\ IsNaNRow(1)

\* The requested fields (by place in flds) that the bulk path's latest step
\* found to be a list and went through.
BulkReached ==
    {k \in 1..Len(flds) :
        /\ op \in BulkParsers
        /\ flds[k] \in DOMAIN LastRecord.fieldData
        /\ LastRecord.fieldData[flds[k]].kind = "list"
        /\ \A j \in WrongShape : k < j}

\* The elements of the list the k-th requested field decoded to.
ElementsOf(k) == LastRecord.fieldData[flds[k]].v

\* The positions of the rows appended for the k-th requested field go up
\* with the rows.
PositionsAscend(k) ==
    \A a \in RowsFor(k) : \A b \in RowsFor(k) :
        a <= b => added[a].position.v[1] <= added[b].position.v[1]

C18_RequestKeepsOrder ==
    op = "_create_req" =>
        /\ Len(request.securities) <= Len(tickers)
        /\ \A i \in 1..Len(request.securities) :
            request.securities[i] = tickers[i]
        /\ Len(request.fields) <= Len(flds)
        /\ \A i \in 1..Len(request.fields) : request.fields[i] = flds[i]
        /\ Len(request.overrides) <= Len(ovrds)
        /\ \A i \in 1..Len(request.overrides) :
            /\ request.overrides[i].fieldId = ovrds[i][1]
            /\ request.overrides[i].value = ovrds[i][2]
        /\ pc = "idle" =>
            /\ Len(request.securities) = Len(tickers)
            /\ Len(request.fields) = Len(flds)
            /\ Len(request.overrides) = Len(ovrds)

\* _create_req has returned a request of two tickers, two fields and two
\* overrides, none in alphabetical order.
C18_Witness ==
    /\ op = "_create_req"
    /\ pc = "idle"
    /\ tickers = <<"XXX Equity", "IBM US Equity">>
    /\ flds = <<"PX_LAST", "INDX_MWEIGHT">>
    /\ ovrds = <<<<"REFERENCE_DATE", "20160625">>, <<"CURVE_DATE", "20160626">>>>
    /\ request.securities = tickers

\* The call of _element_to_dict has ended, by a return or by a raise.
Decoded == op = "_element_to_dict" /\ pc = "idle"

\* The keys of the dict d.
Keys(d) == {d.items[i][1] : i \in 1..Len(d.items)}

\* The values the dict d holds under the key k.
ValuesAt(d, k) == {d.items[i][2] : i \in {j \in 1..Len(d.items) : d.items[j][1] = k}}

\* C17 as claimed: _element_to_dict returns a document for every node and
\* never raises; the document of a record holds every child under its name,
\* and a child that is a null leaf, or a leaf whose getValue() raises, is
\* held as None.
C17_DecodeTotal ==
    Decoded =>
        /\ err = NoErr
        /\ doc.t \in {"str", "value", "None", "list", "dict"}
        /\ elem.kind = "sequence" =>
            /\ doc.t = "dict"
            /\ Keys(doc) = {elem.name}
            /\ \A inner \in ValuesAt(doc, elem.name) :
                /\ inner.t = "dict"
                /\ Keys(inner) = {elem.items[i].name : i \in 1..Len(elem.items)}
                /\ \A i \in 1..Len(elem.items) :
                    (/\ elem.items[i].kind = "leaf"
                     /\ elem.items[i].state # "value") =>
                        ValuesAt(inner, elem.items[i].name) = {DNone}

\* C20 (as claimed): a query that drains the queue before it sends is never
\* yielded a message of an event that answers the request of an earlier
\* query that failed, whenever the session queues that event.
C20_NoStaleYield ==
    op \in DrainingOps =>
        \A k \in 1..Len(yielded) : taken[yielded[k][1]] # "old"

\* start() has raised.
StartFailed == op = "start" /\ pc = "idle" /\ err # NoErr

\* C21 (as claimed): a start() that has failed leaves the connection
\* Disconnected, has recorded no service handle and does not leave the
\* session started, so that a following query has no handle to build a
\* request on.
C21_FailedStartLeavesNothing ==
    /\ StartFailed =>
        /\ lifecycle = "Disconnected"
        /\ sessState # "started"
        /\ Len(opens) < 2
    /\ (op \in QueryOps /\ lifecycle = "Disconnected") => nSent = 0

\* C22 (as claimed): a TIMEOUT event polled by _beqs is the last event it
\* polls, and ends the query with the Timeout error.
C22_BeqsTimeoutRaises ==
    (op = "beqs" /\ \E i \in 1..Len(polled) : polled[i].type = "TIMEOUT") =>
        /\ Last(polled).type = "TIMEOUT"
        /\ pc = "idle"
        /\ err = TimeoutError

\* The date sweep has ended: it has raised or the receive has been started.
SweepEnded == op \in HistOps /\ pc = "idle"

\* C23 (as claimed): for a non-empty list of dates, the i-th send of
\* _send_hist carries the built request with the date override set to
\* dates[i] and the correlation id made from dates[i], the sends the session
\* is still answering bear pairwise distinct ids, and the sweep ends with
\* len(dates) sends made and the receive started with that count.
C23_OneSendPerDate ==
    (op \in HistOps /\ dates # <<>>) =>
        /\ \A i \in 1..Len(sends) :
            /\ sends[i].request =
                   WithDate([BuiltRequest(tickers, flds, ovrds) EXCEPT
                                !.overrides = Append(@, [fieldId |-> "",
                                                         value |-> ""])],
                            dates[i])
            /\ sends[i].cid = dates[i]
        /\ \A i, j \in 1..Len(sends) :
            (i # j /\ sends[i].live /\ sends[j].live) =>
                sends[i].cid # sends[j].cid
        /\ SweepEnded =>
            /\ err = NoErr
            /\ Len(sends) = Len(dates)
            /\ expected = Len(sends)

\* What _element_to_dict returns for the i-th child or item of the node.
ChildDoc(i) == ElementToDict(elem.items[i]).doc

\* The node is, or holds at some depth, a value that is not a str and not an
\* Element.
RECURSIVE HoldsNumber(_)
HoldsNumber(e) ==
    \/ e.kind = "number"
    \/ /\ e.kind \in {"choice", "sequence", "array"}
       /\ \E i \in 1..Len(e.items) : HoldsNumber(e.items[i])

\* A node with children has been decoded and a document was returned.
DecodedNode ==
    Decoded /\ err = NoErr /\ elem.kind \in {"choice", "sequence", "array"}

BeginsCall == err' = NoErr /\ nSent' = 0 /\ polled' = <<>> /\ yielded' = <<>>

\* Once a query has raised, nothing more is sent or polled and the error
\* stays as it is until another call begins.
C25_NothingAfterError ==
    (op \in QueryOps /\ err # NoErr) =>
        \/ BeginsCall
        \/ UNCHANGED <<op, err, pc, nSent, everSent, polled, yielded>>

Started ==
    /\ op \in RecvOps
    /\ pc \in {"recv_poll", "recv_yield"} \/ polled # <<>>

\* The polled events whose turn of the loop has reached the counter.
Counted ==
    IF pc = "recv_yield" \/ (pc = "idle" /\ err = ParseError)
    THEN Front(polled) ELSE polled

\* C26: a query starts _receive_events with a count of at least 1; the
\* counter is that count less the RESPONSE events taken so far (one off for
\* each, none for a PARTIAL_RESPONSE event), is never negative, and the
\* traversal has ended exactly when it is 0.
C26_CounterCountsResponses ==
    Started =>
        /\ expected >= 1
        /\ sent_events >= 0
        /\ sent_events = expected - Responses(Counted)
        /\ sent_events = 0 <=> Returned

\* Half way through a sweep over two dates: a PARTIAL_RESPONSE and a
\* RESPONSE event have been taken and one response is outstanding.
C26_Witness ==
    /\ Started
    /\ pc = "recv_poll"
    /\ expected = 2
    /\ sent_events = 1
    /\ Len(polled) = 2
    /\ polled[1].type = "PARTIAL_RESPONSE"
    /\ polled[2].type = "RESPONSE"

\* C27: a date sweep called with an empty list of dates makes no sendRequest
\* call and never reaches _receive_events, and it ends with an error.
C27_EmptyDatesSendNothing ==
    (op \in HistOps /\ nDates = 0) =>
        /\ nSent = 0
        /\ polled = <<>>
        /\ yielded = <<>>
        /\ pc \in {"drain", "create", "idle"}
        /\ pc = "idle" => err \in {EmptyDates, NoService}

\* bulkref_hist has been called with no dates on a connection whose services
\* are open, and has raised.
C27_Witness ==
    /\ op = "bulkref_hist"
    /\ nDates = 0
    /\ refDataService
    /\ pc = "idle"
    /\ err = EmptyDates
    /\ ~everSent

\* C28 (as claimed): when bopen has exited after invoking start(), the
\* session has been stopped, whether the managed block returned, the block
\* raised, or start() itself failed.
C28_StoppedAtExit ==
    (OpenExited /\ op \in {"start", "stop"}) => sessState = "stopped"

====
